---- MODULE Spec2Model ----
(***************************************************************************)
(* Model of the WebSocket relay server (src/unnamed/part_000): admission   *)
(* of connections, per-IP bookkeeping, the ping/pong heartbeat and the     *)
(* broadcast of text messages.  Every action is one handler of the Node    *)
(* event loop, run to completion.                                          *)
(*                                                                         *)
(* The transport library (ws) is modelled by what the handlers observe of  *)
(* it: wss.clients is an insertion-ordered Set that holds a socket from    *)
(* the moment of its upgrade (before the "connection" handler runs) until  *)
(* its "close" event; ws.close() and ws.terminate() move an OPEN socket to *)
(* CLOSING and the "close" event is delivered later, as an event of its    *)
(* own.                                                                    *)
(***************************************************************************)
EXTENDS Integers, Sequences, FiniteSets, TLC

\* ---------------------------------------------------------------- bounds
\* Number of connection identities a behaviour may use.
MaxConns == 5

\* Number of times the listener's retry timer may fire in a behaviour.
MaxRetries == 3

\* Number of connections a behaviour of the full specification accepts; the
\* specifications of one concern (admission, listener, broadcast) use every
\* identity.
MaxSockets == 4

\* --------------------------------------------------- program constants
\* Both limits are scaled down (10 and 1000 in the source); the handlers
\* only ever compare counts against them.
MAX_CONNECTIONS_PER_IP == 2
MAX_TOTAL_CONNECTIONS == 4

Conns == 1..MaxConns
IPs == {"ipX", "ipY"}
Tokens == {"Bearer valid-token", "undefined"}
Payloads == {"pong", "hello"}
ErrorCodes == {"EADDRINUSE", "EACCES"}

VARIABLES
  nextId,             \* identity given to the next upgraded socket
  serverClosed,       \* the wss 'close' event has fired
  clients,            \* wss.clients, in insertion order
  readyState,         \* ws.readyState of every socket
  clientIP,           \* clientIP captured by the handlers of a connection
  admitted,           \* live sockets the connection handler gave handlers
  isAlive,            \* ws.isAlive: "undefined", "true" or "false"
  clientConnections,  \* Map ip -> count (a function on the keys present)
  heartbeatInterval,  \* 0 for undefined/null, else the timer handle
  liveTimers,         \* interval timers that have not been cleared
  ticksSincePong,     \* history: ticks that visited an admitted connection
                      \* since its admission or its last pong frame
                      \* (saturates at 2)
  evicted,            \* history: admitted connections a tick terminated
  rejected,           \* history: live sockets the handler called ws.close on
  last,               \* history: what the last handler did
  listenState,        \* HTTP listener: "pending", "listening" or "failed"
  retryTimers,        \* setTimeout callbacks of the error handler not yet run
  retries             \* history: server.listen calls made by those callbacks

listenerVars == <<listenState, retryTimers, retries>>

vars == <<nextId, serverClosed, clients, readyState, clientIP, admitted,
          isAlive, clientConnections, heartbeatInterval, liveTimers,
          ticksSincePong, evicted, rejected, last, listenState, retryTimers,
          retries>>

\* -------------------------------------------------------------- helpers
Range(s) == {s[i] : i \in 1..Len(s)}

Remove(s, c) == SelectSeq(s, LAMBDA x : x # c)

RECURSIVE SumOver(_, _)
SumOver(f, S) ==
  IF S = {} THEN 0
  ELSE LET k == CHOOSE x \in S : TRUE IN f[k] + SumOver(f, S \ {k})

\* clientConnections.get(ip) || 0
GetCount(m, ip) == IF ip \in DOMAIN m THEN m[ip] ELSE 0

\* Map.set(ip, n)
MapSet(m, ip, n) == [k \in DOMAIN m \cup {ip} |-> IF k = ip THEN n ELSE m[k]]

\* Map.delete(ip)
MapDelete(m, ip) == [k \in DOMAIN m \ {ip} |-> m[k]]

NoEvent ==
  [kind |-> "none", conn |-> 0, ip |-> "none", token |-> "undefined",
   sizeBefore |-> 0, regBefore |-> 0, ipBefore |-> 0,
   code |-> 0, reason |-> "", payload |-> "", routed |-> FALSE,
   to |-> <<>>, term |-> <<>>, started |-> FALSE, stopped |-> FALSE,
   liveBefore |-> 0, cancelled |-> FALSE, failed |-> 0, raised |-> FALSE]

\* ----------------------------------------------------- pure functions
authenticateClient(token) == token = "Bearer valid-token"

trackClientConnection_notCounted(m, ip) == m

trackClientConnection(m, ip) == MapSet(m, ip, GetCount(m, ip) + 1)

untrackClientConnection_keepsZero(m, ip) ==
  MapSet(m, ip, GetCount(m, ip) - 1)

untrackClientConnection(m, ip) ==
  IF GetCount(m, ip) <= 1 THEN MapDelete(m, ip)
  ELSE MapSet(m, ip, GetCount(m, ip) - 1)

admission_limitsFirst(token, size, fromIP) ==
  IF size >= MAX_TOTAL_CONNECTIONS
    THEN [code |-> 1013, reason |-> "Server overloaded"]
  ELSE IF ~authenticateClient(token)
    THEN [code |-> 1008, reason |-> "Unauthorized"]
  ELSE IF fromIP >= MAX_CONNECTIONS_PER_IP
    THEN [code |-> 1008, reason |-> "Too many connections"]
  ELSE [code |-> 0, reason |-> ""]

\* The admission checks of the connection handler, in the handler's order.
\* size is wss.clients.size as the handler reads it, fromIP the Map entry
\* of the remote address.  Code 0 stands for "no ws.close call".
admission(token, size, fromIP) ==
  IF ~authenticateClient(token)
    THEN [code |-> 1008, reason |-> "Unauthorized"]
  ELSE IF size >= MAX_TOTAL_CONNECTIONS
    THEN [code |-> 1013, reason |-> "Server overloaded"]
  ELSE IF fromIP >= MAX_CONNECTIONS_PER_IP
    THEN [code |-> 1008, reason |-> "Too many connections"]
  ELSE [code |-> 0, reason |-> ""]

returnsEarly_fallsThrough(d) == FALSE

\* The `return` after each ws.close call of the connection handler: a
\* rejected attempt leaves the handler before anything is registered.
returnsEarly(d) == d.code # 0

shouldStartHeartbeat_ignoresTimer(size, hb) == size = 1

\* if (wss.clients.size === 1 && !heartbeatInterval)
shouldStartHeartbeat(size, hb) == size = 1 /\ hb = 0

clearInterval_forgotten(live, handle) == live

\* clearInterval(handle): cancels the timer if it is alive; a call with
\* undefined, null or the handle of a cancelled timer does nothing.
clearInterval(live, handle) == live \ {handle}

\* if (wss.clients.size === 0 && heartbeatInterval)
shouldStopHeartbeat(size, hb) == size = 0 /\ hb # 0

\* ws.isAlive = true on admission
initialIsAlive == "true"

onPongFrame_noAssign(alive, ws) == alive

\* ws.on('pong', ...) assigns ws.isAlive
onPongFrame(alive, ws) == [alive EXCEPT ![ws] = "true"]

broadcast_anyState(cl, rs, ws, includeSelf) ==
  SelectSeq(cl, LAMBDA client : includeSelf \/ client # ws)

\* broadcast(ws, message, includeSelf): the clients send() is called on, in
\* the order of wss.clients.forEach.
broadcast(cl, rs, ws, includeSelf) ==
  IF includeSelf
    THEN SelectSeq(cl, LAMBDA client : rs[client] = "OPEN")
    ELSE SelectSeq(cl, LAMBDA client : client # ws /\ rs[client] = "OPEN")

onMessage_noFilter(cl, rs, alive, ws, stringifiedData) ==
  [routed |-> TRUE, to |-> broadcast(cl, rs, ws, FALSE), alive |-> alive]

\* ws.on("message", ...): whether the payload is handed to broadcast, the
\* recipients, and ws.isAlive afterwards.
onMessage(cl, rs, alive, ws, stringifiedData) ==
  IF stringifiedData = "pong"
    THEN [routed |-> FALSE, to |-> <<>>, alive |-> alive]
    ELSE [routed |-> TRUE, to |-> broadcast(cl, rs, ws, FALSE),
          alive |-> alive]

\* client.terminate(): no effect on a CLOSED socket, otherwise the socket is
\* destroyed and the state is CLOSING until the 'close' event.
terminate(rs, client) ==
  IF rs[client] = "CLOSED" THEN rs ELSE [rs EXCEPT ![client] = "CLOSING"]

heartbeatVisit_neverTerminates(st, client) ==
  [st EXCEPT !.alive = [st.alive EXCEPT ![client] = "false"],
             !.pinged = IF st.rs[client] = "OPEN"
                          THEN Append(st.pinged, client) ELSE st.pinged]

\* One visit of the forEach callback of the heartbeat timer.
heartbeatVisit(st, client) ==
  IF st.alive[client] = "false"
    THEN [st EXCEPT !.rs = terminate(st.rs, client),
                    !.term = Append(st.term, client)]
    ELSE [st EXCEPT !.alive = [st.alive EXCEPT ![client] = "false"],
                    !.pinged = IF st.rs[client] = "OPEN"
                                 THEN Append(st.pinged, client)
                                 ELSE st.pinged]

RECURSIVE heartbeatForEach_skipsAfterEvict(_, _, _)
heartbeatForEach_skipsAfterEvict(cl, i, st) ==
  IF i > Len(cl) THEN st
  ELSE heartbeatForEach_skipsAfterEvict(cl,
         IF st.alive[cl[i]] = "false" THEN i + 2 ELSE i + 1,
         heartbeatVisit(st, cl[i]))

\* wss.clients.forEach of the timer callback, from position i on.
RECURSIVE heartbeatForEach(_, _, _)
heartbeatForEach(cl, i, st) ==
  IF i > Len(cl) THEN st
  ELSE heartbeatForEach(cl, i + 1, heartbeatVisit(st, cl[i]))

send_throws(client, failing) ==
  [raised |-> client \in failing, error |-> FALSE]

\* client.send(message) on an OPEN socket: the call returns; a failed write
\* surfaces later as the socket's 'error' event, which is only logged.
send(client, failing) == [raised |-> FALSE, error |-> client \in failing]

\* wss.clients.forEach of broadcast, from position i on, when the sends to
\* the sockets in failing fail.  The loop has no try/catch: an exception
\* raised by a send would leave forEach and skip the remaining clients.
RECURSIVE broadcastSends(_, _, _, _, _, _, _)
broadcastSends(cl, i, rs, ws, includeSelf, failing, acc) ==
  IF i > Len(cl) \/ acc.raised THEN acc
  ELSE IF (includeSelf \/ cl[i] # ws) /\ rs[cl[i]] = "OPEN"
    THEN broadcastSends(cl, i + 1, rs, ws, includeSelf, failing,
           [to |-> Append(acc.to, cl[i]),
            raised |-> send(cl[i], failing).raised,
            errors |-> IF send(cl[i], failing).error
                         THEN Append(acc.errors, cl[i]) ELSE acc.errors])
    ELSE broadcastSends(cl, i + 1, rs, ws, includeSelf, failing, acc)

\* ------------------------------------------------------- derived state
\* Admitted connections whose close handler has not run yet.
Registered == admitted

RegisteredFrom(ip) == {c \in Registered : clientIP[c] = ip}

HeartbeatRunning == liveTimers # {}

\* ----------------------------------------------------------------- Init
Init ==
  /\ nextId = 1
  /\ serverClosed = FALSE
  /\ clients = <<>>
  /\ readyState = [c \in Conns |-> "NONE"]
  /\ clientIP = [c \in Conns |-> "none"]
  /\ admitted = {}
  /\ isAlive = [c \in Conns |-> "undefined"]
  /\ clientConnections = <<>>
  /\ heartbeatInterval = 0
  /\ liveTimers = {}
  /\ ticksSincePong = [c \in Conns |-> 0]
  /\ evicted = {}
  /\ rejected = {}
  /\ last = NoEvent
  /\ listenState = "pending"
  /\ retryTimers = 0
  /\ retries = 0

\* -------------------------------------------------------------- actions
\* wss.on("connection"): the socket is already in wss.clients when the
\* handler runs.  A rejected socket is closed (CLOSING) and gets no handler.
Connection(ip, token) ==
  /\ ~serverClosed
  /\ nextId <= MaxConns
  /\ LET ws == nextId
         cl == Append(clients, ws)
         d == admission(token, Len(cl), GetCount(clientConnections, ip))
         start == ~returnsEarly(d)
                    /\ shouldStartHeartbeat(Len(cl), heartbeatInterval)
     IN
     /\ nextId' = nextId + 1
     /\ clients' = cl
     /\ rejected' = IF d.code # 0 THEN rejected \cup {ws} ELSE rejected
     /\ IF returnsEarly(d)
          THEN /\ readyState' = [readyState EXCEPT ![ws] = "CLOSING"]
               /\ UNCHANGED <<clientIP, admitted, isAlive,
                              clientConnections>>
          ELSE /\ readyState' = [readyState EXCEPT ![ws] = "OPEN"]
               /\ clientIP' = [clientIP EXCEPT ![ws] = ip]
               /\ admitted' = admitted \cup {ws}
               /\ isAlive' = [isAlive EXCEPT ![ws] = initialIsAlive]
               /\ clientConnections' =
                    trackClientConnection(clientConnections, ip)
     /\ IF start
          THEN /\ heartbeatInterval' = ws
               /\ liveTimers' = liveTimers \cup {ws}
          ELSE UNCHANGED <<heartbeatInterval, liveTimers>>
     /\ last' = [NoEvent EXCEPT !.kind = "connection", !.conn = ws,
                   !.ip = ip, !.token = token,
                   !.sizeBefore = Len(clients),
                   !.regBefore = Cardinality(Registered),
                   !.ipBefore = Cardinality(RegisteredFrom(ip)),
                   !.code = d.code, !.reason = d.reason,
                   !.started = start]
     /\ UNCHANGED <<serverClosed, ticksSincePong, evicted>>
  /\ UNCHANGED listenerVars

\* ws.on("message") of an admitted connection.
Message(ws, data) ==
  /\ ws \in admitted
  /\ readyState[ws] = "OPEN"
  /\ LET r == onMessage(clients, readyState, isAlive, ws, data) IN
     /\ isAlive' = r.alive
     /\ last' = [NoEvent EXCEPT !.kind = "message", !.conn = ws,
                   !.payload = data, !.routed = r.routed, !.to = r.to]
  /\ UNCHANGED <<nextId, serverClosed, clients, readyState, clientIP,
                 admitted, clientConnections, heartbeatInterval, liveTimers,
                 ticksSincePong, evicted, rejected>>
  /\ UNCHANGED listenerVars

\* ws.on('pong') of an admitted connection: a pong control frame arrived.
Pong(ws) ==
  /\ ws \in admitted
  /\ readyState[ws] = "OPEN"
  /\ isAlive' = onPongFrame(isAlive, ws)
  /\ ticksSincePong' = [ticksSincePong EXCEPT ![ws] = 0]
  /\ last' = [NoEvent EXCEPT !.kind = "pong"]
  /\ UNCHANGED <<nextId, serverClosed, clients, readyState, clientIP,
                 admitted, clientConnections, heartbeatInterval, liveTimers,
                 evicted, rejected>>
  /\ UNCHANGED listenerVars

\* The callback of the interval timer set by startHeartbeat.
Tick ==
  /\ liveTimers # {}
  /\ LET st == heartbeatForEach(clients, 1,
                 [alive |-> isAlive, rs |-> readyState,
                  pinged |-> <<>>, term |-> <<>>])
     IN
     /\ isAlive' = st.alive
     /\ readyState' = st.rs
     /\ evicted' = evicted \cup (Range(st.term) \cap admitted)
     /\ ticksSincePong' =
          [c \in Conns |->
             IF c \in admitted /\ ticksSincePong[c] < 2
               THEN ticksSincePong[c] + 1 ELSE ticksSincePong[c]]
     /\ last' = [NoEvent EXCEPT !.kind = "tick", !.to = st.pinged,
                   !.term = st.term]
  /\ UNCHANGED <<nextId, serverClosed, clients, clientIP, admitted,
                 clientConnections, heartbeatInterval, liveTimers,
                 rejected>>
  /\ UNCHANGED listenerVars

\* A text frame arrives on a socket the connection handler gave no
\* "message" handler: the event has no listener and nothing runs.
MessageUnhandled(ws, data) ==
  /\ ws \in Range(clients) \ admitted
  /\ last' = [NoEvent EXCEPT !.kind = "unhandled"]
  /\ UNCHANGED <<nextId, serverClosed, clients, readyState, clientIP,
                 admitted, isAlive, clientConnections, heartbeatInterval,
                 liveTimers, ticksSincePong, evicted, rejected>>
  /\ UNCHANGED listenerVars

\* The peer starts the closing handshake of an open connection: the socket
\* is CLOSING until the transport closes.
PeerClosing(ws) ==
  /\ ws \in Range(clients)
  /\ readyState[ws] = "OPEN"
  /\ readyState' = [readyState EXCEPT ![ws] = "CLOSING"]
  /\ last' = [NoEvent EXCEPT !.kind = "closing"]
  /\ UNCHANGED <<nextId, serverClosed, clients, clientIP, admitted, isAlive,
                 clientConnections, heartbeatInterval, liveTimers,
                 ticksSincePong, evicted, rejected>>
  /\ UNCHANGED listenerVars

\* The 'close' event of a socket.  The library's own listener removes it
\* from wss.clients first; ws.on("close") runs only if the connection
\* handler registered it.  CLOSED is terminal: no handler reads the socket
\* again, so its fields are dropped with it.
Close(ws) ==
  /\ ws \in Range(clients)
  /\ LET cl == Remove(clients, ws)
         stop == ws \in admitted
                   /\ shouldStopHeartbeat(Len(cl), heartbeatInterval)
     IN
     /\ clients' = cl
     /\ readyState' = [readyState EXCEPT ![ws] = "CLOSED"]
     /\ clientConnections' =
          IF ws \in admitted
            THEN untrackClientConnection(clientConnections, clientIP[ws])
            ELSE clientConnections
     /\ IF stop
          THEN /\ liveTimers' = clearInterval(liveTimers, heartbeatInterval)
               /\ heartbeatInterval' = 0
          ELSE UNCHANGED <<heartbeatInterval, liveTimers>>
     /\ last' = [NoEvent EXCEPT !.kind = "close", !.ip = clientIP[ws],
                   !.sizeBefore = Len(clients), !.stopped = stop,
                   !.liveBefore = Cardinality(liveTimers),
                   !.cancelled = stop /\ heartbeatInterval \in liveTimers]
  /\ admitted' = admitted \ {ws}
  /\ clientIP' = [clientIP EXCEPT ![ws] = "none"]
  /\ isAlive' = [isAlive EXCEPT ![ws] = "undefined"]
  /\ ticksSincePong' = [ticksSincePong EXCEPT ![ws] = 0]
  /\ evicted' = evicted \ {ws}
  /\ rejected' = rejected \ {ws}
  /\ UNCHANGED <<nextId, serverClosed>>
  /\ UNCHANGED listenerVars

\* wss.on('close'): the server was shut down; clearInterval on whatever
\* heartbeatInterval holds, which keeps its value.
WssClose ==
  /\ ~serverClosed
  /\ serverClosed' = TRUE
  /\ liveTimers' = clearInterval(liveTimers, heartbeatInterval)
  /\ last' = [NoEvent EXCEPT !.kind = "wssclose",
                !.liveBefore = Cardinality(liveTimers),
                !.cancelled = heartbeatInterval \in liveTimers]
  /\ UNCHANGED <<nextId, clients, readyState, clientIP, admitted, isAlive,
                 clientConnections, heartbeatInterval, ticksSincePong,
                 evicted, rejected>>
  /\ UNCHANGED listenerVars

\* ws.on("message") of an admitted connection when the send to the socket
\* bad fails (0: no send fails).
MessageSendFails(ws, data, bad) ==
  /\ ws \in admitted
  /\ readyState[ws] = "OPEN"
  /\ LET r == IF data = "pong"
                THEN [to |-> <<>>, raised |-> FALSE, errors |-> <<>>]
                ELSE broadcastSends(clients, 1, readyState, ws, FALSE, {bad},
                       [to |-> <<>>, raised |-> FALSE, errors |-> <<>>])
     IN last' = [NoEvent EXCEPT !.kind = "send", !.conn = ws,
                   !.payload = data, !.routed = (data # "pong"),
                   !.to = r.to, !.failed = bad, !.raised = r.raised]
  /\ UNCHANGED <<nextId, serverClosed, clients, readyState, clientIP,
                 admitted, isAlive, clientConnections, heartbeatInterval,
                 liveTimers, ticksSincePong, evicted, rejected>>
  /\ UNCHANGED listenerVars

\* The 'listening' event of the HTTP server.
Listening ==
  /\ listenState = "pending"
  /\ listenState' = "listening"
  /\ UNCHANGED <<nextId, serverClosed, clients, readyState, clientIP,
                 admitted, isAlive, clientConnections, heartbeatInterval,
                 liveTimers, ticksSincePong, evicted, rejected, last,
                 retryTimers, retries>>

\* server.on('error') for a failed server.listen: the error is logged, and
\* for EADDRINUSE a retry is scheduled with setTimeout.
ServerError(code) ==
  /\ listenState = "pending"
  /\ listenState' = "failed"
  /\ retryTimers' = IF code = "EADDRINUSE" THEN retryTimers + 1
                    ELSE retryTimers
  /\ UNCHANGED <<nextId, serverClosed, clients, readyState, clientIP,
                 admitted, isAlive, clientConnections, heartbeatInterval,
                 liveTimers, ticksSincePong, evicted, rejected, last,
                 retries>>

\* The setTimeout callback of the error handler: server.close() and
\* server.listen(serverPort) again.
RetryTimeout ==
  /\ retryTimers > 0
  /\ retries < MaxRetries
  /\ retryTimers' = retryTimers - 1
  /\ retries' = retries + 1
  /\ listenState' = "pending"
  /\ UNCHANGED <<nextId, serverClosed, clients, readyState, clientIP,
                 admitted, isAlive, clientConnections, heartbeatInterval,
                 liveTimers, ticksSincePong, evicted, rejected, last>>

\* The connection handler, for the first MaxSockets connections.
ConnectionWithin(ip, token) ==
  /\ nextId <= MaxSockets
  /\ Connection(ip, token)

Next ==
  \/ \E ip \in IPs, token \in Tokens : ConnectionWithin(ip, token)
  \/ \E ws \in Conns, data \in Payloads : Message(ws, data)
  \/ \E ws \in Conns, data \in Payloads : MessageUnhandled(ws, data)
  \/ \E ws \in Conns : Pong(ws)
  \/ Tick
  \/ \E ws \in Conns : PeerClosing(ws)
  \/ \E ws \in Conns : Close(ws)
  \/ WssClose

Spec == Init /\ [][Next]_vars

\* Admissions and closes alone, with a third origin, so that the origins'
\* limits together exceed the total limit.
AllIPs == IPs \cup {"ipZ"}

NextAdmission ==
  \/ \E ip \in AllIPs, token \in Tokens : Connection(ip, token)
  \/ \E ws \in Conns : Close(ws)

SpecAdmission == Init /\ [][NextAdmission]_vars

\* The HTTP listener and its retry, next to the connections of the
\* WebSocket server.
NextListener ==
  \/ Listening
  \/ \E code \in ErrorCodes : ServerError(code)
  \/ RetryTimeout
  \/ \E ip \in IPs, token \in Tokens : Connection(ip, token)
  \/ \E ws \in Conns : Close(ws)

SpecListener == Init /\ [][NextListener]_vars

\* Broadcasts in which the send to one recipient fails.
NextBroadcast ==
  \/ \E ip \in IPs, token \in Tokens : Connection(ip, token)
  \/ \E ws \in Conns, data \in Payloads, bad \in Conns \cup {0} :
       MessageSendFails(ws, data, bad)
  \/ \E ws \in Conns : PeerClosing(ws)
  \/ \E ws \in Conns : Close(ws)

SpecBroadcast == Init /\ [][NextBroadcast]_vars

TypeOK ==
  /\ nextId \in 1..(MaxConns + 1)
  /\ Range(clients) \subseteq Conns
  /\ Cardinality(Range(clients)) = Len(clients)
  /\ admitted \subseteq Conns
  /\ liveTimers \subseteq Conns
  /\ Cardinality(liveTimers) <= 1


\* ============================================================== claims
\* The rejection reason of the last connection attempt, read off the
\* ws.close call the handler made ("Accept" when it made none).
DecisionOf(ev) ==
  IF ev.code = 0 THEN "Accept"
  ELSE IF ev.reason = "Unauthorized" THEN "Unauthorized"
  ELSE IF ev.reason = "Server overloaded" THEN "CapacityExceeded"
  ELSE "OriginCapacityExceeded"

\* The decision the admission policy prescribes for an attempt, from the
\* credential, the number of registered connections and the number of
\* registered connections of the origin, both before the attempt.
PolicyDecision(token, total, fromOrigin) ==
  IF ~authenticateClient(token) THEN "Unauthorized"
  ELSE IF total >= MAX_TOTAL_CONNECTIONS THEN "CapacityExceeded"
  ELSE IF fromOrigin >= MAX_CONNECTIONS_PER_IP THEN "OriginCapacityExceeded"
  ELSE "Accept"

Occurrences(s, c) == Cardinality({i \in 1..Len(s) : s[i] = c})

\* C1: in every reachable state each origin's count equals the number of
\* admitted, not yet closed connections from that origin, the counts sum to
\* the number of such connections, and the map holds no entry of value 0.
C1_OriginCountsExact ==
  /\ \A ip \in IPs :
       GetCount(clientConnections, ip) = Cardinality(RegisteredFrom(ip))
  /\ SumOver(clientConnections, DOMAIN clientConnections)
       = Cardinality(Registered)
  /\ \A ip \in DOMAIN clientConnections : clientConnections[ip] # 0

\* C1 witness: an admitted connection of ipX has just closed, leaving one
\* connection of ipX and one of ipY registered.
C1_Witness ==
  /\ last.kind = "close" /\ last.ip = "ipX"
  /\ GetCount(clientConnections, "ipX") = 1
  /\ GetCount(clientConnections, "ipY") = 1

\* C2 (as claimed): while the server is up, the heartbeat timer is running
\* if and only if some admitted, not yet closed connection exists.
C2_HeartbeatIffRegistered ==
  ~serverClosed => (HeartbeatRunning <=> Registered # {})

\* C3 (as claimed): an admitted connection that two consecutive ticks
\* visited without a pong frame in between is deregistered when the second
\* tick ends.
C3_DeregisteredBySecondTick ==
  \A c \in Conns : ticksSincePong[c] = 2 => c \notin Registered

\* C3 (amended): an admitted connection that two consecutive ticks visited
\* without a pong frame in between has been terminated by the second tick
\* (it is no longer OPEN), and the handling of its close event is what
\* deregisters it: every step that closes a registered connection removes
\* it from the registry and lowers its origin's count by one.
C3_TerminatedBySecondTick ==
  /\ [](\A c \in Registered :
          ticksSincePong[c] = 2 => c \in evicted /\ readyState[c] = "CLOSING")
  /\ [][\A c \in Registered :
          readyState'[c] = "CLOSED" =>
            /\ c \notin Registered'
            /\ GetCount(clientConnections', clientIP[c])
                 = GetCount(clientConnections, clientIP[c]) - 1]_vars

\* C3 witness: the second tick has just terminated a registered connection
\* that no pong frame arrived from.
C3_Witness ==
  /\ last.kind = "tick"
  /\ \E c \in Registered :
       /\ ticksSincePong[c] = 2 /\ readyState[c] = "CLOSING"
       /\ c \in Range(last.term)

\* C4: an admitted connection is terminated by the heartbeat only after two
\* consecutive ticks with no pong frame handled in between; one that answers
\* between every two ticks, or was admitted since the last tick, is never
\* terminated by it.
C4_ResponsiveNeverEvicted ==
  \A c \in Registered : c \in evicted => ticksSincePong[c] = 2

\* C4 witness: a tick has just run that evicted a later connection d while
\* the earlier connection c, which answered the probes, is still open.
C4_Witness ==
  /\ last.kind = "tick"
  /\ \E c, d \in Registered :
       /\ c < d /\ d \in Range(last.term)
       /\ c \notin evicted /\ readyState[c] = "OPEN"
       /\ ticksSincePong[c] = 1

\* C5 (as claimed): after a text message "pong" is handled on an open
\* connection its liveness flag is true.
C5_TextPongSetsAlive ==
  (last.kind = "message" /\ last.payload = "pong")
    => isAlive[last.conn] = "true"

\* C6: a text message "pong" is not handed to broadcast and reaches no
\* connection; any other text payload is handed to broadcast, which does not
\* send it to the sender.
C6_PongLiteralSuppressed ==
  last.kind = "message" =>
    IF last.payload = "pong"
      THEN ~last.routed /\ last.to = <<>>
      ELSE last.routed /\ last.conn \notin Range(last.to)

\* C6 witness: a text "pong" was handled while another connection was open
\* to receive a broadcast.
C6_Witness ==
  /\ last.kind = "message" /\ last.payload = "pong"
  /\ \E c \in Registered : c # last.conn /\ readyState[c] = "OPEN"

\* C7: a routed message is sent exactly once to every connection other than
\* the sender that is OPEN, and not at all to the sender or to a connection
\* that is not OPEN (closing, closed, or a rejected attempt still closing).
C7_DeliveredOnceToOpenPeers ==
  (last.kind = "message" /\ last.routed) =>
    \A c \in Conns :
      Occurrences(last.to, c) =
        IF c # last.conn /\ readyState[c] = "OPEN" THEN 1 ELSE 0

\* C7 witness: a message was routed while the server held an open peer, an
\* admitted connection that is closing and a rejected attempt still closing.
C7_Witness ==
  /\ last.kind = "message" /\ last.routed /\ Len(last.to) = 1
  /\ \E e \in Registered : e # last.conn /\ readyState[e] = "CLOSING"
  /\ \E r \in Range(clients) : r \notin admitted

\* C8 (as claimed): every attempt gets the decision of the first failing
\* check in the order Unauthorized, CapacityExceeded, OriginCapacityExceeded
\* and is accepted and registered when no check fails.
C8_FirstFailingCheckWins ==
  last.kind = "connection" =>
    /\ DecisionOf(last)
         = PolicyDecision(last.token, last.regBefore, last.ipBefore)
    /\ DecisionOf(last) = "Accept" => last.conn \in Registered

\* C9 (as claimed): an attempt made while the server holds the maximum
\* number of connections is rejected with CapacityExceeded whatever its
\* credential.
C9_AtCapacityAnyCredential ==
  (last.kind = "connection" /\ last.sizeBefore = MAX_TOTAL_CONNECTIONS)
    => DecisionOf(last) = "CapacityExceeded"

\* C9 (amended): an attempt made while the server holds the maximum number
\* of connections is rejected with CapacityExceeded when its credential is
\* valid and with Unauthorized when it is not; it is never registered.
C9_AtCapacityByCredential ==
  (last.kind = "connection" /\ last.sizeBefore >= MAX_TOTAL_CONNECTIONS)
    => /\ DecisionOf(last) = IF authenticateClient(last.token)
                               THEN "CapacityExceeded" ELSE "Unauthorized"
       /\ last.conn \notin Registered

\* C9 witness: an attempt with a valid credential arrived while the server
\* held the maximum number of connections and was rejected for capacity.
C9_Witness ==
  /\ last.kind = "connection" /\ last.sizeBefore = MAX_TOTAL_CONNECTIONS
  /\ authenticateClient(last.token)
  /\ last.code = 1013 /\ readyState[last.conn] = "CLOSING"

\* C10 (as claimed): an authenticated attempt from an origin that already
\* has the per-origin maximum of registered connections, made while fewer
\* than the total maximum are registered, is rejected with
\* OriginCapacityExceeded and not registered.
C10_OriginAtLimitRejected ==
  (/\ last.kind = "connection" /\ authenticateClient(last.token)
   /\ last.ipBefore >= MAX_CONNECTIONS_PER_IP
   /\ last.regBefore < MAX_TOTAL_CONNECTIONS)
    => DecisionOf(last) = "OriginCapacityExceeded"
         /\ last.conn \notin Registered

\* The close codes the handler uses for the three rejections.
CodeUnauthorized == admission("undefined", 1, 0).code

CodeCapacity == admission("Bearer valid-token", MAX_TOTAL_CONNECTIONS, 0).code

CodeOrigin == admission("Bearer valid-token", 1, MAX_CONNECTIONS_PER_IP).code

\* C11 (as claimed): the close code of a rejected attempt identifies its
\* reason: it is the code of no other rejection reason.
C11_CloseCodeIdentifiesReason ==
  (last.kind = "connection" /\ last.code # 0) =>
    /\ DecisionOf(last) # "Unauthorized" => last.code # CodeUnauthorized
    /\ DecisionOf(last) # "CapacityExceeded" => last.code # CodeCapacity
    /\ DecisionOf(last) # "OriginCapacityExceeded" => last.code # CodeOrigin

\* What app.get('/metrics') reports.
metricsActiveConnections == Len(clients)

metricsConnectionsPerIP == clientConnections

\* C13 (as claimed): the total the metrics endpoint reports equals the sum
\* of the per-origin counts it reports alongside.
C13_TotalEqualsSumOfOrigins ==
  metricsActiveConnections
    = SumOver(metricsConnectionsPerIP, DOMAIN metricsConnectionsPerIP)

\* C16 (as claimed): an authenticated attempt is rejected with
\* CapacityExceeded only if the connections registered before it, without
\* the attempt itself and without rejected attempts still closing, are at
\* least the total maximum.
C16_CapacityCountsRegisteredOnly ==
  (/\ last.kind = "connection" /\ authenticateClient(last.token)
   /\ DecisionOf(last) = "CapacityExceeded")
    => last.regBefore >= MAX_TOTAL_CONNECTIONS

\* C17: at most one heartbeat timer is alive, and a timer that has just
\* been created is the only one alive.
C17_AtMostOneTimer ==
  /\ Cardinality(liveTimers) <= 1
  /\ (last.kind = "connection" /\ last.started)
       => liveTimers = {last.conn} /\ heartbeatInterval = last.conn

\* C17 witness: a connection was admitted as the only socket of the server
\* while the timer of an earlier connection was still alive, and no second
\* timer was created.
C17_Witness ==
  /\ last.kind = "connection" /\ last.code = 0 /\ last.sizeBefore = 0
  /\ ~last.started
  /\ liveTimers # {} /\ liveTimers # {last.conn}

\* C20 (as claimed): a tick visits every registered connection exactly once
\* and either evicts it or clears its flag and probes it.
C20_EveryConnectionEvictedOrProbed ==
  last.kind = "tick" =>
    \A c \in Registered :
      Occurrences(last.term, c) + Occurrences(last.to, c) = 1

\* C20 (amended): a tick visits every socket of wss.clients exactly once,
\* whatever it does to the others: a socket whose flag was false is
\* terminated, any other has its flag cleared and is probed if and only if
\* it is OPEN.
C20_EverySocketVisitedOnce ==
  [][last'.kind = "tick" =>
       \A c \in Range(clients) :
         IF isAlive[c] = "false"
           THEN /\ Occurrences(last'.term, c) = 1
                /\ Occurrences(last'.to, c) = 0
                /\ readyState'[c] = "CLOSING"
           ELSE /\ Occurrences(last'.term, c) = 0
                /\ isAlive'[c] = "false"
                /\ readyState'[c] = readyState[c]
                /\ Occurrences(last'.to, c)
                     = IF readyState[c] = "OPEN" THEN 1 ELSE 0]_vars

\* C20 witness: a tick has just terminated one socket and probed a socket
\* that comes after it in wss.clients.
C20_Witness ==
  /\ last.kind = "tick"
  /\ \E c, d \in Range(clients) :
       c < d /\ c \in Range(last.term) /\ d \in Range(last.to)

\* C14: whichever of the two stop paths runs (the close handler that finds
\* no client left, the server's close event), and in whichever order both
\* run, the timer is cancelled afterwards; the stop cancels a timer exactly
\* when one was alive, so after a first stop a second one cancels nothing,
\* and once the server is closed no timer is alive.
C14_StopIsIdempotent ==
  /\ serverClosed => liveTimers = {}
  /\ ((last.kind = "close" /\ last.stopped) \/ last.kind = "wssclose")
       => /\ liveTimers = {}
          /\ last.cancelled <=> last.liveBefore = 1

\* C14 witness: the server's close event cancelled the timer and the close
\* handler of the last connection then stopped the heartbeat a second time,
\* cancelling nothing.
C14_Witness ==
  /\ last.kind = "close" /\ last.stopped /\ serverClosed
  /\ ~last.cancelled /\ last.liveBefore = 0
  /\ liveTimers = {} /\ heartbeatInterval = 0

\* C18: a rejected attempt is never registered and never OPEN, no message
\* handled by the server comes from it, and neither its rejection nor the
\* completion of its close changes the per-origin counts.
C18_RejectedLeavesNoTrace ==
  /\ [](/\ rejected \cap Registered = {}
        /\ \A r \in rejected : readyState[r] = "CLOSING"
        /\ last.kind = "message" => last.conn \notin rejected
        /\ last.kind = "unhandled" => ~last.routed /\ last.to = <<>>)
  /\ [][\A r \in rejected' :
          (r \notin rejected \/ readyState'[r] # readyState[r])
            => clientConnections' = clientConnections]_vars
  /\ [][\A r \in rejected :
          r \notin Range(clients')
            => clientConnections' = clientConnections]_vars

\* C18 witness: a text frame arrived from a rejected attempt that is still
\* closing while registered connections were open, and nothing was routed.
C18_Witness ==
  /\ last.kind = "unhandled"
  /\ rejected # {}
  /\ \E c \in Registered : readyState[c] = "OPEN"
  /\ clientConnections # <<>>

\* C12: the registered connections never exceed the total maximum and no
\* origin has more registered connections, or a higher count in the Map,
\* than the per-origin maximum.
C12_LimitsNeverExceeded ==
  /\ Cardinality(Registered) <= MAX_TOTAL_CONNECTIONS
  /\ \A ip \in AllIPs :
       /\ Cardinality(RegisteredFrom(ip)) <= MAX_CONNECTIONS_PER_IP
       /\ GetCount(clientConnections, ip) <= MAX_CONNECTIONS_PER_IP

\* C12 witness: with one origin at its limit, an authenticated attempt from
\* it has just been rejected for the origin's limit while an authenticated
\* attempt from another origin could still be admitted.
C12_Witness ==
  /\ last.kind = "connection" /\ authenticateClient(last.token)
  /\ DecisionOf(last) = "OriginCapacityExceeded"
  /\ Cardinality(RegisteredFrom(last.ip)) = MAX_CONNECTIONS_PER_IP
  /\ Cardinality(Registered) < MAX_TOTAL_CONNECTIONS

\* C15 (as claimed): the listener retries a failed bind at most once.
C15_SingleBoundedRetry == retries <= 1

====
